---- MODULE Spec2Model ----
(***************************************************************************)
(* A model of the BlenderLab scripts: the revolved bottle and its emboss   *)
(* step (scripts/maroon_bottle_fixed.py), the tree asset pack              *)
(* (scripts/tree_asset_pack_blenderlab.py), the material builders of the   *)
(* scripts, the mesh selection step the scripts end with, the export run   *)
(* that follows it and the export diagnostic (scripts/test_export.py).     *)
(*                                                                         *)
(* Lengths are integers in millimetres (the profile of the bottle is       *)
(* given in multiples of 0.001 m), so 0.010 is 10 and 0.096 is 96.         *)
(*                                                                         *)
(* The scripts run in a host (Blender's bpy). Where a script uses a name   *)
(* its source does not show the host to define, the host is a variable:    *)
(* the run is followed both in a host that defines the name and in one     *)
(* that does not, where the use raises.                                    *)
(***************************************************************************)
EXTENDS Integers, Sequences, FiniteSets

VARIABLES
    \* --- the bottle mesh (maroon_bottle_fixed.py) ---
    profile,        \* the profile handed to the Screw modifier: <<radius, height>> points
    steps,          \* screw.steps
    mesh,           \* the converted mesh, NoMesh before bpy.ops.object.convert
    selections,     \* the face sets the emboss selection returned, one per run
    meshPc,         \* "curve" -> "mesh" -> "embossed"
    embossed,       \* the mesh the emboss step leaves, NoEdit before the step
    \* --- the tree asset pack (tree_asset_pack_blenderlab.py) ---
    objects,        \* bpy.data.objects, in creation order
    active,         \* bpy.context.active_object: an index of objects, 0 for none
    rngState,       \* the state of the generator behind the random module
    inst,           \* the calls of create_tree: arguments, locals, position
    \* --- the selection step and the export run ---
    selectedBefore, \* the objects that were selected when the selection step ran
    exportPc,       \* "build", then Pending / Attempting / Succeeded / Exhausted
    candidate,      \* the index of the candidate format the run is at
    attempted,      \* the formats attempted so far, in order
    exportSet,      \* the objects handed to the current attempt
    errors,         \* the failures recorded, one per failed attempt
    file,           \* what is at the target path: "none", "partial", "complete"
    artifact,       \* the ArtifactInfo of the successful attempt
    \* --- the material builders ---
    sockets,        \* the names of the inputs the host's Principled BSDF node offers
    mat,            \* the material being built: builder, position, nodes, links
    \* --- the export diagnostic (test_export.py) ---
    harnessPc,      \* "start", "cube", "verify", "smooth", "material", "select",
                    \* "export", "check", then "exited" or "uncaught"
    mesh_count,     \* mesh_count of Test 6
    exportFile,     \* what is at export_path: whether it exists, and its size
    produced,       \* the size of the file the export call wrote, -1 for none
    file_size,      \* file_size of Test 7, -1 before it is read
    exitCode,       \* the exit code of the run, -1 while it runs
    \* --- the asset pack loop (tree_asset_pack_blenderlab.py section 5) ---
    packPc,         \* "palette", "loop", "call", "done", "raised"
    trees,          \* trees: what the calls of create_tree returned
    summary,        \* the numbers the summary printed
    \* --- the host the scripts run in ---
    host            \* what this host defines, of the names not every host defines

meshVars == <<profile, steps, mesh, selections, meshPc, embossed>>
treeVars == <<objects, active, rngState, inst>>
exportVars == <<selectedBefore, exportPc, candidate, attempted, exportSet, errors,
                file, artifact>>
matVars == <<sockets, mat>>
harnessVars == <<harnessPc, mesh_count, exportFile, produced, file_size, exitCode>>
packVars == <<packPc, trees, summary>>

vars == <<profile, steps, mesh, selections, meshPc, embossed, objects, active, rngState, inst,
          selectedBefore, exportPc, candidate, attempted, exportSet, errors, file,
          artifact, sockets, mat, harnessPc, mesh_count, exportFile, produced,
          file_size, exitCode, packPc, trees, summary, host>>

Range(s) == {s[k] : k \in DOMAIN s}

\* Names the scripts use that the source alone does not show the host to
\* define: the node type of create_bark_material's col_ramp, the keyword
\* subdivisions= of primitive_uv_sphere_add in create_foliage_clump, and the
\* attribute linked_time of an object read by the export diagnostic. The
\* script's use of a name its host does not define raises in the host
\* (RuntimeError for the node type, TypeError for the keyword, AttributeError
\* for the attribute). A host is the set of these names it defines; the
\* releases of Blender whose API defines none of them are the host {}.
ValRampNode == "ShaderNodeValRamp"
SubdivisionsKeyword == "primitive_uv_sphere_add(subdivisions=)"
LinkedTimeAttribute == "Object.linked_time"

----------------------------------------------------------------------------
(* Bounds of the model.                                                    *)

MaxProfileLen == 4      \* test profiles have 3..MaxProfileLen points
MaxSteps == 4           \* test sweeps have 3..MaxSteps angular steps
MaxSelectRuns == 2      \* how often the emboss selection is re-run on one mesh
MaxCalls == 2           \* calls of create_tree in one run of the sequential specification
MaxParSteps == 16       \* steps each of two interleaved instances is followed for
MaxObjects == 2         \* objects in the scene the selection step and the export run see

----------------------------------------------------------------------------
(* 1. BOTTLE PROFILE, 2. SCREW MODIFIER                                    *)

\* profile_verts, (radius, height) in mm, bottom to top.
profile_verts ==
    << <<0, 0>>,    <<34, 0>>,   <<36, 5>>,   <<35, 12>>,  <<36, 30>>,
       <<35, 55>>,  <<36, 80>>,  <<36, 95>>,  <<34, 110>>, <<33, 135>>,
       <<28, 165>>, <<20, 195>>, <<17, 215>>, <<17, 225>>, <<18, 228>>,
       <<16, 232>>, <<0, 232>> >>

\* screw.steps = 64
ScrewSteps == 64

UseMergeVerticesOff == FALSE
\* screw.use_merge_vertices = True
UseMergeVertices == TRUE

\* The emboss zone of emboss_faces: v.co.z < 0.096 and v.co.z > 0.010.
EmbossZMax == 96
EmbossZMin == 10

NoMesh == [verts |-> {}, edges |-> {}, faces |-> <<>>, z |-> <<>>, made |-> FALSE]

\* The screw copies the N profile points once per step: copy j (0-based) of
\* point i (1-based) is vertex j * N + i.
ScrewVert(N, i, j) == j * N + i
ProfileIndex(N, v) == ((v - 1) % N) + 1

\* A profile point on the axis: all its copies are at one position.
OnAxis(prof, i) == prof[i][1] = 0

\* Merging (use_merge_vertices): every copy of a point on the axis is mapped
\* to the first copy of that point; all other vertices stay.
MergeTarget(prof, merge, v) ==
    LET i == ProfileIndex(Len(prof), v)
    IN  IF merge /\ OnAxis(prof, i) THEN i ELSE v

ScrewQuadOpen(N, st, e, j) ==
    << ScrewVert(N, e, j), ScrewVert(N, e + 1, j),
       ScrewVert(N, e + 1, j + 1), ScrewVert(N, e, j + 1) >>

\* The quad the screw makes of profile edge (e, e+1) between step j and the
\* next step (the last step joins the first: the angle is 360 degrees).
ScrewQuad(N, st, e, j) ==
    LET jn == (j + 1) % st
    IN  << ScrewVert(N, e, j), ScrewVert(N, e + 1, j),
           ScrewVert(N, e + 1, jn), ScrewVert(N, e, jn) >>

\* A face after merging: its corners mapped, a corner equal to its (cyclic)
\* predecessor dropped.
WeldFace(prof, merge, f) ==
    LET g == [k \in DOMAIN f |-> MergeTarget(prof, merge, f[k])]
        n == Len(g)
        keep(k) == g[k] # g[IF k = 1 THEN n ELSE k - 1]
        idx == {k \in 1..n : keep(k)}
        nth[m \in 0..n] ==
            \* the position in g of the m-th kept corner
            IF m = 0 THEN 0
            ELSE IF \E k \in idx : k > nth[m - 1]
                 THEN CHOOSE k \in idx : k > nth[m - 1] /\
                          \A k2 \in idx : k2 > nth[m - 1] => k <= k2
                 ELSE 0
    IN  [m \in 1..Cardinality(idx) |-> g[nth[m]]]

\* The edges the screw makes: the copy of every profile edge at every step,
\* and for every profile point the edge from its copy at a step to its copy
\* at the next step.
ScrewEdges(N, st) ==
    {{ScrewVert(N, e, j), ScrewVert(N, e + 1, j)} : e \in 1..(N - 1), j \in 0..(st - 1)}
        \cup {{ScrewVert(N, i, j), ScrewVert(N, i, (j + 1) % st)} :
                  i \in 1..N, j \in 0..(st - 1)}

\* The edges after merging: the ends mapped, an edge whose ends became one
\* vertex dropped, edges between the same two vertices kept once. An edge
\* stays whether or not a face is left on it.
WeldEdges(prof, merge, edges) ==
    {w \in {{MergeTarget(prof, merge, v) : v \in e} : e \in edges} : Cardinality(w) = 2}

\* The mesh bpy.ops.object.convert(target='MESH') leaves: the screw of the
\* profile over a full turn in st steps, merged on the axis when merge is set;
\* faces left with fewer than 3 corners are dropped.
Revolve(prof, st, merge) ==
    LET N == Len(prof)
        raw == [q \in 1..((N - 1) * st) |->
                   ScrewQuad(N, st, ((q - 1) % (N - 1)) + 1, (q - 1) \div (N - 1))]
        welded == [q \in DOMAIN raw |-> WeldFace(prof, merge, raw[q])]
        live(f) == Len(f) >= 3
        vs == {MergeTarget(prof, merge, v) : v \in 1..(N * st)}
    IN  [verts |-> vs,
         edges |-> WeldEdges(prof, merge, ScrewEdges(N, st)),
         faces |-> SelectSeq(welded, live),
         z     |-> [v \in vs |-> prof[ProfileIndex(N, v)][2]],
         made  |-> TRUE]

----------------------------------------------------------------------------
(* 3. EMBOSSED PANEL DETAIL: the face selection                            *)

InZoneClosedBelow(zz) == zz < EmbossZMax /\ zz >= EmbossZMin
\* v.co.z < 0.096 and v.co.z > 0.010
InZone(zz) == zz < EmbossZMax /\ zz > EmbossZMin

\* emboss_faces = [f for f in bm.faces if all(... for v in f.verts)]
EmbossFaces(m) ==
    {f \in DOMAIN m.faces : \A k \in DOMAIN m.faces[f] : InZone(m.z[m.faces[f][k]])}

----------------------------------------------------------------------------
(* 3. EMBOSSED PANEL DETAIL: subdivide_edges and inset_region               *)
(*                                                                         *)
(* The edit mesh keeps every face of the revolved mesh under the key       *)
(* <<q, 1>>; the faces an operation makes of face q get the keys <<q, k>>. *)
(* New vertices get ids above those of the revolved mesh (1..base). The    *)
(* two operations move no vertex the revolved mesh had (subdivide_edges is *)
(* called without smoothing, inset_region offsets the vertices it makes),  *)
(* so z is kept for those vertices only.                                   *)

\* cuts=2
Cuts == 2

NoEdit == [verts |-> {}, faces |-> <<>>, z |-> <<>>, made |-> FALSE]

\* The edges of a face: its consecutive corners, the last joined to the first.
FaceEdges(f) == {{f[k], f[(k % Len(f)) + 1]} : k \in DOMAIN f}

\* bm = bmesh.from_edit_mesh(bottle.data)
EditMesh(m) ==
    [verts |-> m.verts,
     faces |-> [p \in {<<q, 1>> : q \in DOMAIN m.faces} |-> m.faces[p[1]]],
     z     |-> m.z,
     made  |-> TRUE]

\* edges=list({e for f in emboss_faces for e in f.edges})
EmbossEdges(m, sel) == UNION {FaceEdges(m.faces[q]) : q \in sel}

\* The c-th vertex subdivide_edges puts on edge {a, b}, a < b, counted from a.
CutVert(base, a, b, c) == base + ((a - 1) * base + (b - 1)) * Cuts + c
\* The k-th vertex the grid fill puts inside face q.
GridVert(base, q, k) == base + base * base * Cuts + (q - 1) * Cuts * Cuts + k
\* The k-th vertex inset_region makes for face q, of nf faces.
InsetVert(base, nf, q, k) ==
    base + base * base * Cuts + nf * Cuts * Cuts + (q - 1) * (Cuts + 2) + k

\* The c-th vertex on the way from u to v along a cut edge: u for c = 0,
\* v for c = Cuts + 1.
Along(base, u, v, c) ==
    IF c = 0 THEN u
    ELSE IF c = Cuts + 1 THEN v
    ELSE IF u < v THEN CutVert(base, u, v, c)
    ELSE CutVert(base, v, u, Cuts + 1 - c)

\* The loop of face f from corner k on, with the vertices of its cut edges.
RECURSIVE LoopFrom(_, _, _, _)
LoopFrom(base, f, cut, k) ==
    IF k > Len(f) THEN <<>>
    ELSE LET u == f[k]
             v == f[(k % Len(f)) + 1]
         IN  (IF {u, v} \in cut
              THEN <<u>> \o [c \in 1..Cuts |-> Along(base, u, v, c)]
              ELSE <<u>>) \o LoopFrom(base, f, cut, k + 1)

\* use_grid_fill=True on a quad with every edge cut: the lattice of
\* (Cuts + 2) x (Cuts + 2) points, rows from edge f[1]-f[2] to edge f[4]-f[3].
GridPoint(base, q, f, r, s) ==
    IF r = 0 THEN Along(base, f[1], f[2], s)
    ELSE IF r = Cuts + 1 THEN Along(base, f[4], f[3], s)
    ELSE IF s = 0 THEN Along(base, f[1], f[4], r)
    ELSE IF s = Cuts + 1 THEN Along(base, f[2], f[3], r)
    ELSE GridVert(base, q, (r - 1) * Cuts + s)

\* The (Cuts + 1) x (Cuts + 1) quads of the lattice; quad 1 is at corner f[1].
GridQuads(base, q, f) ==
    [k \in 1..((Cuts + 1) * (Cuts + 1)) |->
        LET r == (k - 1) \div (Cuts + 1)
            s == (k - 1) % (Cuts + 1)
        IN  << GridPoint(base, q, f, r, s),     GridPoint(base, q, f, r, s + 1),
               GridPoint(base, q, f, r + 1, s + 1), GridPoint(base, q, f, r + 1, s) >>]

\* A triangle with every edge cut: the triangular lattice with rows from
\* corner f[1] to edge f[2]-f[3].
TriPoint(base, q, f, r, s) ==
    IF r = 0 THEN Along(base, f[1], f[2], s)
    ELSE IF s = 0 THEN Along(base, f[1], f[3], r)
    ELSE IF r + s = Cuts + 1 THEN Along(base, f[2], f[3], r)
    ELSE GridVert(base, q, (r - 1) * Cuts + s)

\* Its (Cuts + 1) * (Cuts + 1) triangles: the upright ones first (key
\* r * (Cuts + 1) + s + 1; triangle 1 is at corner f[1]), then the inverted ones.
GridTris(base, q, f) ==
    LET n == Cuts + 1
        up == {k \in 1..(n * n) : ((k - 1) \div n) + ((k - 1) % n) <= Cuts}
        down == {n * n + k : k \in {j \in 1..(n * n) :
                                      ((j - 1) \div n) + ((j - 1) % n) <= Cuts - 1}}
    IN  [k \in up \cup down |->
            LET j == IF k > n * n THEN k - n * n ELSE k
                r == (j - 1) \div n
                s == (j - 1) % n
            IN  IF k <= n * n
                THEN << TriPoint(base, q, f, r, s), TriPoint(base, q, f, r, s + 1),
                        TriPoint(base, q, f, r + 1, s) >>
                ELSE << TriPoint(base, q, f, r, s + 1), TriPoint(base, q, f, r + 1, s + 1),
                        TriPoint(base, q, f, r + 1, s) >>]

\* What subdivide_edges makes of face q with corners f when the edges in cut
\* are cut: the grid when every edge of the face is cut, else the face with
\* the new vertices of its cut edges in its loop (an n-gon), else the face.
SubdividedFace(base, q, f, cut) ==
    IF FaceEdges(f) \subseteq cut
    THEN IF Len(f) = 4 THEN GridQuads(base, q, f) ELSE GridTris(base, q, f)
    ELSE [k \in {1} |-> LoopFrom(base, f, cut, 1)]

Keyed(pieces) ==
    [p \in UNION {{<<q, k>> : k \in DOMAIN pieces[q]} : q \in DOMAIN pieces}
        |-> pieces[p[1]][p[2]]]

VertsOf(faces) == UNION {Range(faces[p]) : p \in DOMAIN faces}

\* bmesh.ops.subdivide_edges(bm, edges=..., cuts=2, use_grid_fill=True)
subdivide_edges(base, bm, edges) ==
    LET pieces == [q \in {p[1] : p \in DOMAIN bm.faces} |->
                      SubdividedFace(base, q, bm.faces[<<q, 1>>], edges)]
        faces == Keyed(pieces)
    IN  [bm EXCEPT !.faces = faces, !.verts = bm.verts \cup VertsOf(faces)]

\* What inset_region makes of face f (key <<q, 1>>): the face on new
\* vertices, one per corner, and a ring of quads between the old corners and
\* the new ones (keys above those of the grid).
InsetFace(base, nf, q, f) ==
    LET n == Len(f)
        top == 2 * (Cuts + 1) * (Cuts + 1)
        new(k) == InsetVert(base, nf, q, k)
    IN  [k \in {1} \cup {top + j : j \in 1..n} |->
            IF k = 1 THEN [j \in 1..n |-> new(j)]
            ELSE LET j == k - top
                     jn == (j % n) + 1
                 IN  << f[j], f[jn], new(jn), new(j) >>]

\* bmesh.ops.inset_region(bm, faces=emboss_faces, ...): after the subdivision
\* a handle of emboss_faces is the piece of its face at the first corner;
\* these pieces share no edge, so each is inset by itself.
inset_region(base, nf, bm, sel) ==
    LET inset == [q \in sel |-> InsetFace(base, nf, q, bm.faces[<<q, 1>>])]
        made == Keyed(inset)
        faces == [p \in DOMAIN bm.faces \cup DOMAIN made |->
                     IF p \in DOMAIN made THEN made[p] ELSE bm.faces[p]]
    IN  [bm EXCEPT !.faces = faces, !.verts = bm.verts \cup VertsOf(faces)]

\* Lines 82-108: the edit mesh of the bottle, and, if emboss_faces, the
\* subdivision of the edges of the selected faces and the inset of the
\* selected faces.
Emboss(base, m) ==
    LET emboss_faces == EmbossFaces(m)
        bm == EditMesh(m)
    IN  IF emboss_faces # {}
        THEN inset_region(base, Len(m.faces),
                          subdivide_edges(base, bm, EmbossEdges(m, emboss_faces)),
                          emboss_faces)
        ELSE bm

----------------------------------------------------------------------------
(* The inputs of the mesh specification: every profile of 3..MaxProfileLen *)
(* points with radii and non-decreasing heights drawn from small sets that *)
(* hold the pole radius 0 and the two bounds of the emboss zone, swept at  *)
(* 3..MaxSteps steps; and the bottle itself. A test profile has a point off *)
(* the axis.                                                               *)

TestRadii == {0, 35}
TestHeights == {5, EmbossZMin, 50, EmbossZMax}

NonDecreasing(s) == \A k \in 1..(Len(s) - 1) : s[k] <= s[k + 1]

TestProfiles ==
    UNION { { [k \in 1..n |-> <<rs[k], hs[k]>>] :
                rs \in {r \in [1..n -> TestRadii] : \E k \in 1..n : r[k] # 0},
                hs \in {h \in [1..n -> TestHeights] : NonDecreasing(h)} }
            : n \in 3..MaxProfileLen }

NoArtifact == [format |-> "", path |-> "", size |-> 0]

\* The tree script has not run.
TreeIdle ==
    /\ objects = <<>>
    /\ active = 0
    /\ rngState = [seed |-> <<"entropy", "a">>]
    /\ inst = <<>>

\* No bottle is being built.
MeshIdle ==
    /\ profile = <<>>
    /\ steps = 0
    /\ mesh = NoMesh
    /\ selections = <<>>
    /\ meshPc = "idle"
    /\ embossed = NoEdit

\* No export run has started.
ExportIdle ==
    /\ selectedBefore = {}
    /\ exportPc = "idle"
    /\ candidate = 0
    /\ attempted = <<>>
    /\ exportSet = {}
    /\ errors = <<>>
    /\ file = "none"
    /\ artifact = NoArtifact

NoMaterial ==
    [builder |-> "", pc |-> 0, nodes |-> {}, links |-> {}, written |-> {},
     returned |-> FALSE, status |-> "none"]

\* No material is being built.
MatIdle ==
    /\ sockets = {}
    /\ mat = NoMaterial

NoFile == [exists |-> FALSE, size |-> 0]

\* The diagnostic is not running.
HarnessIdle ==
    /\ harnessPc = "idle"
    /\ mesh_count = 0
    /\ exportFile = NoFile
    /\ produced = -1
    /\ file_size = -1
    /\ exitCode = -1

NoSummary == [printed |-> FALSE, trees |-> 0, clumps |-> 0]

\* The asset pack script is not running.
PackIdle ==
    /\ packPc = "idle"
    /\ trees = <<>>
    /\ summary = NoSummary

MeshInit ==
    /\ \/ profile \in TestProfiles /\ steps \in 3..MaxSteps
       \/ profile = profile_verts /\ steps = ScrewSteps
    /\ mesh = NoMesh
    /\ selections = <<>>
    /\ meshPc = "curve"
    /\ embossed = NoEdit
    /\ host = {}
    /\ TreeIdle
    /\ ExportIdle
    /\ MatIdle
    /\ HarnessIdle
    /\ PackIdle

\* Section 2: the Screw modifier is added to the profile curve and the
\* object is converted to a mesh.
ConvertToMesh ==
    /\ meshPc = "curve"
    /\ mesh' = Revolve(profile, steps, UseMergeVertices)
    /\ meshPc' = "mesh"
    /\ UNCHANGED host
    /\ UNCHANGED <<profile, steps, selections, embossed>>
    /\ UNCHANGED <<matVars, harnessVars, packVars>>
    /\ UNCHANGED <<treeVars, exportVars>>

\* Section 3: the emboss selection is computed from the mesh.
SelectEmbossFaces ==
    /\ meshPc = "mesh"
    /\ Len(selections) < MaxSelectRuns
    /\ selections' = Append(selections, EmbossFaces(mesh))
    /\ UNCHANGED host
    /\ UNCHANGED <<profile, steps, mesh, meshPc, embossed>>
    /\ UNCHANGED <<matVars, harnessVars, packVars>>
    /\ UNCHANGED <<treeVars, exportVars>>

\* Section 3: the emboss step, from the selection to update_edit_mesh.
EmbossPanels ==
    /\ meshPc = "mesh"
    /\ embossed' = Emboss(Len(profile) * steps, mesh)
    /\ meshPc' = "embossed"
    /\ UNCHANGED host
    /\ UNCHANGED <<profile, steps, mesh, selections>>
    /\ UNCHANGED <<matVars, harnessVars, packVars>>
    /\ UNCHANGED <<treeVars, exportVars>>

MeshNext == ConvertToMesh \/ SelectEmbossFaces \/ EmbossPanels

SpecMesh == MeshInit /\ [][MeshNext]_vars

----------------------------------------------------------------------------
(* MATERIAL BUILDERS: make_plastic_material (maroon_bottle_fixed.py),      *)
(* create_bark_material and create_leaf_material                           *)
(* (tree_asset_pack_blenderlab.py), create_material and the glass settings *)
(* (house_blenderlab.py).                                                  *)
(*                                                                         *)
(* A builder is the list of the host calls it makes, in the order of the   *)
(* code. A node is named by the variable the code holds it in, or by the   *)
(* name the host gives it when use_nodes makes the default graph. A link   *)
(* is <<from node, output, to node, input>>. An input of a node that is    *)
(* not there raises KeyError, a node type the host does not define raises  *)
(* RuntimeError; either ends the script.                                   *)

Builders == {"plastic", "bark", "leaf", "glass"}

\* The inputs of the Principled BSDF every version of the host offers, and
\* those whose name depends on the version (3.x: 'Transmission',
\* 'Subsurface'; 4.x: 'Transmission Weight', 'Subsurface Weight').
CoreSockets == {"Base Color", "Roughness", "IOR", "Normal"}
VersionedSockets ==
    {"Transmission Weight", "Transmission", "Subsurface Weight", "Subsurface"}

NodeType(n) ==
    CASE n \in {"out", "Material Output"} -> "ShaderNodeOutputMaterial"
      [] n \in {"bsdf", "Principled BSDF"} -> "ShaderNodeBsdfPrincipled"
      [] n = "tex_coord" -> "ShaderNodeTexCoord"
      [] n = "mapping" -> "ShaderNodeMapping"
      [] n = "wave" -> "ShaderNodeTexWave"
      [] n = "bump" -> "ShaderNodeBump"
      [] n = "col_ramp" -> "ShaderNodeValRamp"
      [] n = "noise" -> "ShaderNodeTexNoise"

\* node.inputs of a node of the host, given what the Principled BSDF offers.
NodeInputs(n, offered) ==
    CASE NodeType(n) = "ShaderNodeBsdfPrincipled" -> offered
      [] NodeType(n) = "ShaderNodeOutputMaterial" -> {"Surface"}
      [] NodeType(n) = "ShaderNodeTexCoord" -> {}
      [] NodeType(n) = "ShaderNodeMapping" -> {"Vector"}
      [] NodeType(n) = "ShaderNodeTexWave" -> {"Vector", "Scale", "Distortion", "Detail"}
      [] NodeType(n) = "ShaderNodeBump" -> {"Strength", "Distance", "Height", "Normal"}
      [] NodeType(n) = "ShaderNodeValRamp" -> {"Fac"}
      [] NodeType(n) = "ShaderNodeTexNoise" -> {"Vector", "Scale", "Detail"}

\* The calls of a builder.
Clear == [op |-> "clear", node |-> "", names |-> <<>>, link |-> <<>>]
NewNodeOp(n) == [op |-> "node", node |-> n, names |-> <<>>, link |-> <<>>]
\* node.inputs[name].default_value = ...
SetOp(n, name) == [op |-> "set", node |-> n, names |-> <<name>>, link |-> <<>>]
\* for key in names: if key in bsdf.inputs: bsdf.inputs[key].default_value = ...; break
ProbeOp(n, names) == [op |-> "probe", node |-> n, names |-> names, link |-> <<>>]
\* nt.links.new(a.outputs[from], b.inputs[to])
LinkOp(a, from, b, to) ==
    [op |-> "link", node |-> "", names |-> <<>>, link |-> <<a, from, b, to>>]
Return == [op |-> "return", node |-> "", names |-> <<>>, link |-> <<>>]

\* make_plastic_material, after materials.new and use_nodes.
make_plastic_material ==
    << Clear,
       NewNodeOp("out"), NewNodeOp("bsdf"),
       SetOp("bsdf", "Base Color"), SetOp("bsdf", "Roughness"), SetOp("bsdf", "IOR"),
       ProbeOp("bsdf", <<"Transmission Weight", "Transmission">>),
       NewNodeOp("tex_coord"), NewNodeOp("mapping"), NewNodeOp("wave"), NewNodeOp("bump"),
       SetOp("wave", "Scale"), SetOp("wave", "Distortion"), SetOp("wave", "Detail"),
       SetOp("bump", "Strength"), SetOp("bump", "Distance"),
       LinkOp("tex_coord", "Object", "mapping", "Vector"),
       LinkOp("mapping", "Vector", "wave", "Vector"),
       LinkOp("wave", "Color", "bump", "Height"),
       LinkOp("bump", "Normal", "bsdf", "Normal"),
       LinkOp("bsdf", "BSDF", "out", "Surface"),
       Return >>

create_bark_material ==
    << Clear,
       NewNodeOp("out"), NewNodeOp("bsdf"),
       NewNodeOp("col_ramp"), NewNodeOp("noise"), NewNodeOp("bump"),
       SetOp("noise", "Scale"), SetOp("noise", "Detail"),
       SetOp("bump", "Strength"),
       SetOp("bsdf", "Base Color"), SetOp("bsdf", "Roughness"),
       LinkOp("noise", "Fac", "col_ramp", "Fac"),
       LinkOp("col_ramp", "Color", "bsdf", "Base Color"),
       LinkOp("noise", "Fac", "bump", "Height"),
       LinkOp("bump", "Normal", "bsdf", "Normal"),
       LinkOp("bsdf", "BSDF", "out", "Surface"),
       Return >>

create_leaf_material ==
    << Clear,
       NewNodeOp("out"), NewNodeOp("bsdf"),
       SetOp("bsdf", "Base Color"), SetOp("bsdf", "Roughness"),
       ProbeOp("bsdf", <<"Subsurface Weight", "Subsurface">>),
       LinkOp("bsdf", "BSDF", "out", "Surface"),
       Return >>

\* create_material("Glass", ...) of the house, and lines 23-25 on what it
\* returned.
glass_mat ==
    << SetOp("Principled BSDF", "Base Color"), SetOp("Principled BSDF", "Roughness"),
       Return,
       SetOp("Principled BSDF", "Transmission"), SetOp("Principled BSDF", "Roughness") >>

Program(builder) ==
    CASE builder = "plastic" -> make_plastic_material
      [] builder = "bark" -> create_bark_material
      [] builder = "leaf" -> create_leaf_material
      [] builder = "glass" -> glass_mat

\* mat = bpy.data.materials.new(name); mat.use_nodes = True: the host makes
\* the default graph, a Principled BSDF linked to a Material Output.
NewMaterialRecord(builder) ==
    [builder |-> builder, pc |-> 1,
     nodes |-> {"Principled BSDF", "Material Output"},
     links |-> {<<"Principled BSDF", "BSDF", "Material Output", "Surface">>},
     written |-> {}, returned |-> FALSE, status |-> "building"]

NodesKept(nodes) == nodes
\* nt.nodes.clear()
NodesAfterClear(nodes) == {}

\* The first of the names that is an input of the node, as a set.
FirstPresent(names, inputs) ==
    {names[i] : i \in {j \in DOMAIN names :
                          /\ names[j] \in inputs
                          /\ \A h \in 1..(j - 1) : names[h] \notin inputs}}

Running == mat.status = "building" /\ mat.pc <= Len(Program(mat.builder))
Cur == Program(mat.builder)[mat.pc]
Raise == [mat EXCEPT !.status = "KeyError"]
\* The node types the host defines.
NodeTypesDefined ==
    {"ShaderNodeOutputMaterial", "ShaderNodeBsdfPrincipled", "ShaderNodeTexCoord",
     "ShaderNodeMapping", "ShaderNodeTexWave", "ShaderNodeBump", "ShaderNodeTexNoise"}
        \cup (host \cap {ValRampNode})
\* nt.nodes.new(type) of a type the host does not define
RaiseUndefinedNode == [mat EXCEPT !.status = "RuntimeError"]

MatInit ==
    /\ sockets \in {CoreSockets \cup v : v \in SUBSET VersionedSockets}
    /\ mat = NoMaterial
    /\ host \in SUBSET {ValRampNode}
    /\ MeshIdle
    /\ TreeIdle
    /\ ExportIdle
    /\ HarnessIdle
    /\ PackIdle

NewMaterial(builder) ==
    /\ mat.status = "none"
    /\ mat' = NewMaterialRecord(builder)
    /\ UNCHANGED host
    /\ UNCHANGED <<sockets, meshVars, treeVars, exportVars, harnessVars, packVars>>

ClearNodes ==
    /\ Running
    /\ Cur.op = "clear"
    /\ mat' = [mat EXCEPT !.pc = @ + 1, !.nodes = NodesAfterClear(@), !.links = {}]
    /\ UNCHANGED host
    /\ UNCHANGED <<sockets, meshVars, treeVars, exportVars, harnessVars, packVars>>

NewNode ==
    /\ Running
    /\ Cur.op = "node"
    /\ mat' = IF NodeType(Cur.node) \in NodeTypesDefined
              THEN [mat EXCEPT !.pc = @ + 1, !.nodes = @ \cup {Cur.node}]
              ELSE RaiseUndefinedNode
    /\ UNCHANGED host
    /\ UNCHANGED <<sockets, meshVars, treeVars, exportVars, harnessVars, packVars>>

SetInput ==
    /\ Running
    /\ Cur.op = "set"
    /\ mat' = IF Cur.node \in mat.nodes /\ Cur.names[1] \in NodeInputs(Cur.node, sockets)
              THEN [mat EXCEPT !.pc = @ + 1,
                               !.written = @ \cup {<<Cur.node, Cur.names[1]>>}]
              ELSE Raise
    /\ UNCHANGED host
    /\ UNCHANGED <<sockets, meshVars, treeVars, exportVars, harnessVars, packVars>>

ProbeInput ==
    /\ Running
    /\ Cur.op = "probe"
    /\ mat' = [mat EXCEPT !.pc = @ + 1,
                          !.written = @ \cup
                              {<<Cur.node, k>> :
                                  k \in FirstPresent(Cur.names, NodeInputs(Cur.node, sockets))}]
    /\ UNCHANGED host
    /\ UNCHANGED <<sockets, meshVars, treeVars, exportVars, harnessVars, packVars>>

NewLink ==
    /\ Running
    /\ Cur.op = "link"
    /\ mat' = IF /\ {Cur.link[1], Cur.link[3]} \subseteq mat.nodes
                 /\ Cur.link[4] \in NodeInputs(Cur.link[3], sockets)
              THEN [mat EXCEPT !.pc = @ + 1, !.links = @ \cup {Cur.link}]
              ELSE Raise
    /\ UNCHANGED host
    /\ UNCHANGED <<sockets, meshVars, treeVars, exportVars, harnessVars, packVars>>

ReturnMaterial ==
    /\ Running
    /\ Cur.op = "return"
    /\ mat' = [mat EXCEPT !.pc = @ + 1, !.returned = TRUE]
    /\ UNCHANGED host
    /\ UNCHANGED <<sockets, meshVars, treeVars, exportVars, harnessVars, packVars>>

\* obj.data.materials.append(mat): after everything the script does to it.
AttachMaterial ==
    /\ mat.status = "building"
    /\ mat.pc > Len(Program(mat.builder))
    /\ mat' = [mat EXCEPT !.status = "attached"]
    /\ UNCHANGED host
    /\ UNCHANGED <<sockets, meshVars, treeVars, exportVars, harnessVars, packVars>>

MatNext ==
    \/ \E b \in Builders : NewMaterial(b)
    \/ ClearNodes
    \/ NewNode
    \/ SetInput
    \/ ProbeInput
    \/ NewLink
    \/ ReturnMaterial
    \/ AttachMaterial

SpecMaterial == MatInit /\ [][MatNext]_vars

----------------------------------------------------------------------------
(* TREE ASSET PACK (tree_asset_pack_blenderlab.py)                         *)
(*                                                                         *)
(* Numbers of the script are kept as integers with the unit in the field   *)
(* name: _10 is tenths, _100 hundredths, _1000 thousandths, _10000 ten     *)
(* thousandths. An offset cos(a) * d, sin(a) * d is kept as the pair of    *)
(* the angle a in degrees and d.                                           *)

\* positions, section 5
positions == << <<0, 0, 0>>, <<4, 0, 0>>, <<8, 0, 0>>, <<12, 0, 0>>, <<16, 0, 0>> >>

TreeTypes == {1, 2, 3, 4, 5}
TestLocations == {positions[1], positions[2]}
TestScales == {1, 2}
InitialRngStates == {[seed |-> <<"entropy", "a">>], [seed |-> <<"entropy", "b">>]}

\* hash(location) of CPython (3.8 and later) for the tuples of `positions`, as
\* the four 16-bit limbs of the 64-bit value, most significant first.
TupleHash(loc) ==
    CASE loc = <<0, 0, 0>>  -> <<10695, 14583, 38276, 9802>>
      [] loc = <<4, 0, 0>>  -> <<45852, 31652, 43716, 45231>>
      [] loc = <<8, 0, 0>>  -> <<5895, 2635, 30469, 11230>>
      [] loc = <<12, 0, 0>> -> <<56678, 26549, 3141, 46659>>
      [] loc = <<16, 0, 0>> -> <<1267, 9235, 42866, 2863>>

\* random.seed(n): the generator's state is the one n determines.
SeedState(n) == [seed |-> <<"int", n>>]

\* The table of create_tree: the branch of tree_type (the last branch is the
\* else of the script).
TreeParams(tree_type, scale) ==
    CASE tree_type = 1 ->
            [trunk_h_10 |-> 45 * scale, trunk_r_100 |-> 30 * scale,
             foliage_height_10 |-> 50 * scale, foliage_radius_10 |-> 12 * scale,
             levels |-> 4, material |-> "LeafDark", bark_mat |-> "BarkDark"]
      [] tree_type = 2 ->
            [trunk_h_10 |-> 35 * scale, trunk_r_100 |-> 40 * scale,
             foliage_height_10 |-> 30 * scale, foliage_radius_10 |-> 20 * scale,
             levels |-> 3, material |-> "LeafGreen", bark_mat |-> "BarkLight"]
      [] tree_type = 3 ->
            [trunk_h_10 |-> 50 * scale, trunk_r_100 |-> 15 * scale,
             foliage_height_10 |-> 45 * scale, foliage_radius_10 |-> 10 * scale,
             levels |-> 5, material |-> "LeafGreen", bark_mat |-> "BarkLight"]
      [] tree_type = 4 ->
            [trunk_h_10 |-> 30 * scale, trunk_r_100 |-> 50 * scale,
             foliage_height_10 |-> 25 * scale, foliage_radius_10 |-> 25 * scale,
             levels |-> 2, material |-> "LeafDark", bark_mat |-> "BarkLight"]
      [] OTHER ->
            [trunk_h_10 |-> 40 * scale, trunk_r_100 |-> 35 * scale,
             foliage_height_10 |-> 20 * scale, foliage_radius_10 |-> 18 * scale,
             levels |-> 3, material |-> "LeafGreen", bark_mat |-> "BarkDark"]

\* The call of create_trunk in create_tree, with the defaults taper = 0.6 and
\* curve = 0.1, and the bark material create_tree appends to the trunk.
TrunkPart(tree_type, location, scale) ==
    LET p == TreeParams(tree_type, scale)
    IN  [prim |-> "cone",
         location |-> location,
         offset |-> [angle |-> 0, dist_100 |-> 0],
         rise |-> <<0, 1>>,
         radius |-> [unit |-> "1/100", v |-> p.trunk_r_100],
         radius2_1000 |-> p.trunk_r_100 * 6,
         depth_10 |-> p.trunk_h_10,
         rotation_z_10 |-> 1,
         name |-> <<"Trunk_Type", tree_type>>,
         material |-> p.bark_mat,
         modifier |-> <<>>]

\* height_offset - location[2] = trunk_h * 0.5 + level * foliage_height / levels,
\* as a fraction <<numerator, denominator>>.
Rise(p, level) ==
    <<p.trunk_h_10 * p.levels + 2 * level * p.foliage_height_10, 20 * p.levels>>

\* The main foliage sphere of a level.
MainClump(p, location, level) ==
    [prim |-> "sphere",
     location |-> location,
     offset |-> [angle |-> 0, dist_100 |-> 0],
     rise |-> Rise(p, level),
     radius |-> [unit |-> "1/100", v |-> p.foliage_radius_10 * (10 - level)],
     name |-> <<"Foliage_L", level, "_Main">>,
     material |-> p.material,
     modifier |-> [type |-> "DISPLACE", texture |-> <<"Foliage_L", level, "_Main", "_Tex">>,
                   strength_1000000 |-> p.foliage_radius_10 * (10 - level) * 15 * 100]]

\* Side clump i of a level: at angle i * 120 degrees, foliage_radius * 0.7 away.
SideClump(p, location, level, i) ==
    [prim |-> "sphere",
     location |-> location,
     offset |-> [angle |-> i * 120, dist_100 |-> p.foliage_radius_10 * 7],
     rise |-> Rise(p, level),
     radius |-> [unit |-> "1/10000", v |-> p.foliage_radius_10 * 6 * (100 - level * 15)],
     name |-> <<"Foliage_L", level, "_S", i>>,
     material |-> p.material,
     modifier |-> [type |-> "DISPLACE", texture |-> <<"Foliage_L", level, "_S", i, "_Tex">>,
                   strength_1000000 |-> p.foliage_radius_10 * 6 * (100 - level * 15) * 15]]

\* The body of `for level in range(levels)`: the main clump, then
\* `for i in range(3)` the side clumps.
LevelClumps(p, location, level) ==
    << MainClump(p, location, level),
       SideClump(p, location, level, 0), SideClump(p, location, level, 1),
       SideClump(p, location, level, 2) >>

RECURSIVE Canopy(_, _, _)
\* The clumps of levels 0 .. upto - 1, in creation order.
Canopy(p, location, upto) ==
    IF upto = 0 THEN <<>>
    ELSE Canopy(p, location, upto - 1) \o LevelClumps(p, location, upto - 1)

\* The parts one call of create_tree creates, in creation order.
Parts(tree_type, location, scale) ==
    <<TrunkPart(tree_type, location, scale)>>
        \o Canopy(TreeParams(tree_type, scale), location,
                  TreeParams(tree_type, scale).levels)

\* A call of create_tree that has not started.
NewCall(tree_type, location, scale) ==
    [tree_type |-> tree_type, location |-> location, scale |-> scale,
     pc |-> "seed", part |-> 1, handle |-> 0, trunk |-> 0, disp |-> 0, tex |-> <<>>,
     hostCalls |-> 0,
     rngAtCall |-> <<>>, rngAtReturn |-> <<>>,
     objectsAtCall |-> <<>>, objectsAtReturn |-> <<>>]

\* The program state a step of create_tree reads and writes.
World == [objects |-> objects, active |-> active, rngState |-> rngState, inst |-> inst]

\* random.seed(hash(location))
SeedRandom(w, k) ==
    [w EXCEPT !.rngState = SeedState(TupleHash(w.inst[k].location)),
              !.inst[k].rngAtCall = w.rngState,
              !.inst[k].objectsAtCall = w.objects,
              !.inst[k].pc = "add",
              !.inst[k].hostCalls = @ + 1]

\* The call k ends with an exception the script does not catch: the scene
\* and the generator stay as they are.
RaiseInCall(w, k) ==
    [w EXCEPT !.inst[k].pc = "raised",
              !.inst[k].objectsAtReturn = w.objects,
              !.inst[k].rngAtReturn = w.rngState,
              !.inst[k].hostCalls = @ + 1]

\* The keywords the script passes to the operator that adds a primitive:
\* primitive_cone_add(vertices=, radius1=, radius2=, depth=, location=),
\* primitive_uv_sphere_add(radius=, location=, subdivisions=).
KeywordsPassed(prim) ==
    IF prim = "cone" THEN {} ELSE {SubdivisionsKeyword}

\* bpy.ops.mesh.primitive_cone_add / primitive_uv_sphere_add: the host
\* deselects what was selected, creates the object selected and makes it the
\* active object. creator and part record which call asked for it; name is
\* the name the script assigns (empty until then).
AddAccepted(w, k) ==
    LET me == w.inst[k]
        p == Parts(me.tree_type, me.location, me.scale)[me.part]
        new == [creator |-> k, part |-> me.part, type |-> "MESH",
                prim |-> p.prim, location |-> p.location, offset |-> p.offset,
                rise |-> p.rise, radius |-> p.radius,
                name |-> <<>>, materials |-> <<>>, modifiers |-> <<>>,
                select |-> TRUE, smooth |-> FALSE, rotation_z_10 |-> 0,
                touchedBy |-> {}, finishedBy |-> {}]
        others == [i \in DOMAIN w.objects |-> [w.objects[i] EXCEPT !.select = FALSE]]
    IN  [w EXCEPT !.objects = Append(others, new),
                  !.active = Len(w.objects) + 1,
                  !.inst[k].pc = "bind",
                  !.inst[k].hostCalls = @ + 1]

\* The host turns the keywords into the operator's properties before the
\* operator runs: a keyword the operator does not have raises TypeError, and
\* nothing is added.
AddPrimitive(w, k) ==
    LET me == w.inst[k]
        p == Parts(me.tree_type, me.location, me.scale)[me.part]
    IN  IF KeywordsPassed(p.prim) \subseteq host
        THEN AddAccepted(w, k)
        ELSE RaiseInCall(w, k)

\* trunk = bpy.context.active_object / foliage = bpy.context.active_object
BindActiveObject(w, k) ==
    [w EXCEPT !.inst[k].handle = w.active,
              !.inst[k].pc = "name",
              !.inst[k].hostCalls = @ + 1]

\* The statements create_trunk (with the append of the bark material in
\* create_tree) and create_foliage_clump run on the object they hold, in
\* the order of the code, one statement a step.
ConfigureSteps(prim) ==
    IF prim = "cone"
    THEN <<"name", "set_active", "select_set", "rotate", "shade_smooth", "material">>
    ELSE <<"name", "modifier", "texture", "disp_texture", "disp_strength", "material",
           "shade_smooth">>

ConfigurePcs == Range(ConfigureSteps("cone")) \cup Range(ConfigureSteps("sphere"))

\* The part call k is at.
PartAt(w, k) ==
    Parts(w.inst[k].tree_type, w.inst[k].location, w.inst[k].scale)[w.inst[k].part]

\* The statement of call k has left the objects objs: the call moves to its
\* next statement, after the last statement of a part to the next part, after
\* the last part to its return.
Advance(w, k, objs) ==
    LET me == w.inst[k]
        ps == Parts(me.tree_type, me.location, me.scale)
        stmts == ConfigureSteps(ps[me.part].prim)
        at == CHOOSE i \in DOMAIN stmts : stmts[i] = me.pc
        lastStmt == at = Len(stmts)
        last == lastStmt /\ me.part = Len(ps)
        left == IF lastStmt
                THEN [objs EXCEPT ![me.handle].finishedBy = @ \cup {<<k, me.part>>}]
                ELSE objs
    IN  [w EXCEPT !.objects = left,
                  !.inst[k].pc = IF ~lastStmt THEN stmts[at + 1]
                                 ELSE IF last THEN "done" ELSE "add",
                  !.inst[k].part = IF lastStmt /\ ~last THEN @ + 1 ELSE @,
                  !.inst[k].objectsAtReturn = IF last THEN left ELSE @,
                  !.inst[k].rngAtReturn = IF last THEN w.rngState ELSE @,
                  !.inst[k].hostCalls = @ + 1]

\* trunk.name = name / foliage.name = name
SetName(w, k) ==
    LET h == w.inst[k].handle
    IN  Advance(w, k, [w.objects EXCEPT
                          ![h].name = PartAt(w, k).name,
                          ![h].touchedBy = @ \cup {<<k, w.inst[k].part>>}])

\* bpy.context.view_layer.objects.active = trunk
SetActive(w, k) ==
    [Advance(w, k, w.objects) EXCEPT !.active = w.inst[k].handle]

\* trunk.select_set(True)
SelectTrunk(w, k) ==
    Advance(w, k, [w.objects EXCEPT ![w.inst[k].handle].select = TRUE])

\* trunk.rotation_euler.z = curve
Rotate(w, k) ==
    Advance(w, k, [w.objects EXCEPT
                      ![w.inst[k].handle].rotation_z_10 = PartAt(w, k).rotation_z_10])

\* bpy.ops.object.shade_smooth(): the host smooths the selected objects.
\* create_trunk returns here: trunk = create_trunk(...)
ShadeSmooth(w, k) ==
    LET smoothed == [i \in DOMAIN w.objects |->
                        IF w.objects[i].select
                        THEN [w.objects[i] EXCEPT !.smooth = TRUE]
                        ELSE w.objects[i]]
        next == Advance(w, k, smoothed)
    IN  IF PartAt(w, k).prim = "cone"
        THEN [next EXCEPT !.inst[k].trunk = w.inst[k].handle]
        ELSE next

\* disp = foliage.modifiers.new('Displace', 'DISPLACE')
NewModifier(w, k) ==
    LET h == w.inst[k].handle
        disp == [type |-> "DISPLACE", texture |-> <<>>, strength_1000000 |-> 1000000]
    IN  [Advance(w, k, [w.objects EXCEPT
                           ![h].modifiers = Append(@, disp),
                           ![h].touchedBy = @ \cup {<<k, w.inst[k].part>>}])
            EXCEPT !.inst[k].disp = Len(w.objects[h].modifiers) + 1]

\* tex = bpy.data.textures.new(f'{name}_Tex', type='CLOUDS'); tex.cloud_type = 'COLOR'
NewTexture(w, k) ==
    [Advance(w, k, w.objects) EXCEPT !.inst[k].tex = PartAt(w, k).modifier.texture]

\* disp.texture = tex
SetDispTexture(w, k) ==
    LET me == w.inst[k]
    IN  Advance(w, k, [w.objects EXCEPT ![me.handle].modifiers[me.disp].texture = me.tex])

\* disp.strength = radius * 0.15
SetDispStrength(w, k) ==
    LET me == w.inst[k]
    IN  Advance(w, k, [w.objects EXCEPT
                          ![me.handle].modifiers[me.disp].strength_1000000 =
                              PartAt(w, k).modifier.strength_1000000])

\* trunk.data.materials.append(bark_mat) / foliage.data.materials.append(material)
AppendMaterial(w, k) ==
    LET h == w.inst[k].handle
    IN  Advance(w, k, [w.objects EXCEPT
                          ![h].materials = Append(@, PartAt(w, k).material),
                          ![h].touchedBy = @ \cup {<<k, w.inst[k].part>>}])

\* The next statement of call k on the object it holds.
ConfigureStatement(w, k) ==
    CASE w.inst[k].pc = "name"          -> SetName(w, k)
      [] w.inst[k].pc = "set_active"    -> SetActive(w, k)
      [] w.inst[k].pc = "select_set"    -> SelectTrunk(w, k)
      [] w.inst[k].pc = "rotate"        -> Rotate(w, k)
      [] w.inst[k].pc = "shade_smooth"  -> ShadeSmooth(w, k)
      [] w.inst[k].pc = "modifier"      -> NewModifier(w, k)
      [] w.inst[k].pc = "texture"       -> NewTexture(w, k)
      [] w.inst[k].pc = "disp_texture"  -> SetDispTexture(w, k)
      [] w.inst[k].pc = "disp_strength" -> SetDispStrength(w, k)
      [] w.inst[k].pc = "material"      -> AppendMaterial(w, k)

\* One step of call k.
TreeStep(w, k) ==
    CASE w.inst[k].pc \in {"done", "raised"} -> w
      [] w.inst[k].pc = "seed" -> SeedRandom(w, k)
      [] w.inst[k].pc = "add"  -> AddPrimitive(w, k)
      [] w.inst[k].pc = "bind" -> BindActiveObject(w, k)
      [] OTHER                 -> ConfigureStatement(w, k)

RECURSIVE RunSteps(_, _, _)
\* n steps of call k, nothing else running: the first half of them, and the
\* rest from the world the first half leaves.
RunSteps(w, k, n) ==
    IF n = 0 THEN w
    ELSE IF n = 1 THEN TreeStep(w, k)
    ELSE LET rest == {RunSteps(x, k, n - (n \div 2)) : x \in {RunSteps(w, k, n \div 2)}}
         IN  CHOOSE y \in rest : TRUE

\* The steps of a call from its entry to its return: the seed, and for every
\* part the primitive, the active object and the statements on it.
StepsToReturn(w, k) ==
    LET ps == Parts(w.inst[k].tree_type, w.inst[k].location, w.inst[k].scale)
        of[i \in 0..Len(ps)] ==
            IF i = 0 THEN 1 ELSE of[i - 1] + 2 + Len(ConfigureSteps(ps[i].prim))
    IN  of[Len(ps)]

\* Call k, at its entry, run to its return, nothing else running.
RunToReturn(w, k) == CHOOSE y \in {RunSteps(x, k, StepsToReturn(x, k)) : x \in {w}} : TRUE

SetWorld(w) ==
    /\ objects' = w.objects
    /\ active' = w.active
    /\ rngState' = w.rngState
    /\ inst' = w.inst

\* The sequential program: a call of create_tree runs from entry to its
\* return, or to the exception that ends it and the script (section 5 calls
\* it in a loop).
create_tree(tree_type, location, scale) ==
    /\ Len(inst) < MaxCalls
    /\ \A j \in DOMAIN inst : inst[j].pc # "raised"
    /\ SetWorld(RunToReturn([World EXCEPT !.inst =
                                 Append(@, NewCall(tree_type, location, scale))],
                            Len(inst) + 1))
    /\ UNCHANGED host
    /\ UNCHANGED <<matVars, harnessVars, packVars>>
    /\ UNCHANGED <<meshVars, exportVars>>

\* create_tree is defined, and called, after the palette of section 1 is
\* made: its host is one the bark material can be built in.
TreeHosts == {h \in SUBSET {ValRampNode, SubdivisionsKeyword} : ValRampNode \in h}

TreeInit ==
    /\ objects = <<>>
    /\ active = 0
    /\ rngState \in InitialRngStates
    /\ inst = <<>>
    /\ host \in TreeHosts
    /\ MeshIdle
    /\ ExportIdle
    /\ MatIdle
    /\ HarnessIdle
    /\ PackIdle

TreeNext ==
    \E t \in TreeTypes, loc \in TestLocations, sc \in TestScales :
        create_tree(t, loc, sc)

SpecTree == TreeInit /\ [][TreeNext]_vars

\* Two instances of the generator run in parallel, interleaved at every
\* statement that reads or writes the host's state; each is followed for
\* MaxParSteps steps, which takes it through its trunk and its first clump.
\* The two are of the types ParTypes, which differ in bark and leaf material.
ParTypes == {1, 2}

ParInit ==
    /\ objects = <<>>
    /\ active = 0
    /\ rngState \in InitialRngStates
    /\ \E t1, t2 \in ParTypes :
           inst = << NewCall(t1, positions[1], 1), NewCall(t2, positions[2], 1) >>
    /\ host \in TreeHosts
    /\ MeshIdle
    /\ ExportIdle
    /\ MatIdle
    /\ HarnessIdle
    /\ PackIdle

Scheduled(k, at) == inst[k].pc = at /\ inst[k].hostCalls < MaxParSteps

ParSeed(k) ==
    /\ Scheduled(k, "seed")
    /\ SetWorld(SeedRandom(World, k))
    /\ UNCHANGED host
    /\ UNCHANGED <<matVars, harnessVars, packVars>>
    /\ UNCHANGED <<meshVars, exportVars>>

ParAdd(k) ==
    /\ Scheduled(k, "add")
    /\ SetWorld(AddPrimitive(World, k))
    /\ UNCHANGED host
    /\ UNCHANGED <<matVars, harnessVars, packVars>>
    /\ UNCHANGED <<meshVars, exportVars>>

ParBind(k) ==
    /\ Scheduled(k, "bind")
    /\ SetWorld(BindActiveObject(World, k))
    /\ UNCHANGED host
    /\ UNCHANGED <<matVars, harnessVars, packVars>>
    /\ UNCHANGED <<meshVars, exportVars>>

\* One statement of instance k on the object it holds.
ParConfigure(k) ==
    /\ \E at \in ConfigurePcs : Scheduled(k, at)
    /\ SetWorld(ConfigureStatement(World, k))
    /\ UNCHANGED host
    /\ UNCHANGED <<matVars, harnessVars, packVars>>
    /\ UNCHANGED <<meshVars, exportVars>>

ParNext ==
    \E k \in {1, 2} : ParSeed(k) \/ ParAdd(k) \/ ParBind(k) \/ ParConfigure(k)

SpecTreePar == ParInit /\ [][ParNext]_vars

----------------------------------------------------------------------------
(* 5. CREATE ASSET PACK: the loop over positions and the summary.          *)
(* create_tree is followed host call by host call.                         *)

\* len(trees) * 16
ClumpsPerTreeInSummary == 16

PackInit ==
    /\ objects = <<>>
    /\ active = 0
    /\ rngState \in InitialRngStates
    /\ inst = <<>>
    /\ host \in SUBSET {ValRampNode, SubdivisionsKeyword}
    /\ packPc = "palette"
    /\ trees = <<>>
    /\ summary = NoSummary
    /\ MeshIdle
    /\ ExportIdle
    /\ MatIdle
    /\ HarnessIdle

\* Lines 88-91, the material palette: create_bark_material makes its col_ramp
\* node of the type 'ShaderNodeValRamp'; in a host without that type
\* nodes.new raises and the script ends there.
CreatePalette ==
    /\ packPc = "palette"
    /\ packPc' = IF ValRampNode \in host THEN "loop" ELSE "raised"
    /\ UNCHANGED host
    /\ UNCHANGED <<treeVars, trees, summary>>
    /\ UNCHANGED <<meshVars, exportVars, matVars, harnessVars>>

\* for i, pos in enumerate(positions): tree_type = (i % 5) + 1;
\* create_tree(tree_type=tree_type, location=pos, scale=1.0) is entered.
PackCall ==
    /\ packPc = "loop"
    /\ Len(trees) < Len(positions)
    /\ LET i == Len(trees)
       IN  inst' = Append(inst, NewCall((i % 5) + 1, positions[i + 1], 1))
    /\ packPc' = "call"
    /\ UNCHANGED host
    /\ UNCHANGED <<objects, active, rngState, trees, summary>>
    /\ UNCHANGED <<meshVars, exportVars, matVars, harnessVars>>

InCall(at) == packPc = "call" /\ inst[Len(inst)].pc = at

PackSeed ==
    /\ InCall("seed")
    /\ SetWorld(SeedRandom(World, Len(inst)))
    /\ UNCHANGED host
    /\ UNCHANGED <<packVars, meshVars, exportVars, matVars, harnessVars>>

\* An exception of the call is not caught by the loop: the script ends.
PackAdd ==
    /\ InCall("add")
    /\ LET w == AddPrimitive(World, Len(inst))
       IN  /\ SetWorld(w)
           /\ packPc' = IF w.inst[Len(inst)].pc = "raised" THEN "raised" ELSE packPc
    /\ UNCHANGED host
    /\ UNCHANGED <<trees, summary, meshVars, exportVars, matVars, harnessVars>>

PackBind ==
    /\ InCall("bind")
    /\ SetWorld(BindActiveObject(World, Len(inst)))
    /\ UNCHANGED host
    /\ UNCHANGED <<packVars, meshVars, exportVars, matVars, harnessVars>>

\* One statement of the call on the object it holds.
PackConfigure ==
    /\ \E at \in ConfigurePcs : InCall(at)
    /\ SetWorld(ConfigureStatement(World, Len(inst)))
    /\ UNCHANGED host
    /\ UNCHANGED <<packVars, meshVars, exportVars, matVars, harnessVars>>

\* return trunk; trees.append(tree)
PackReturn ==
    /\ InCall("done")
    /\ trees' = Append(trees, inst[Len(inst)].trunk)
    /\ packPc' = "loop"
    /\ UNCHANGED host
    /\ UNCHANGED <<treeVars, summary>>
    /\ UNCHANGED <<meshVars, exportVars, matVars, harnessVars>>

\* The summary: Trees created: len(trees); Total foliage clumps: len(trees) * 16
PrintSummary ==
    /\ packPc = "loop"
    /\ Len(trees) = Len(positions)
    /\ summary' = [printed |-> TRUE, trees |-> Len(trees),
                   clumps |-> Len(trees) * ClumpsPerTreeInSummary]
    /\ packPc' = "done"
    /\ UNCHANGED host
    /\ UNCHANGED <<treeVars, trees>>
    /\ UNCHANGED <<meshVars, exportVars, matVars, harnessVars>>

PackNext ==
    \/ CreatePalette
    \/ PackCall
    \/ PackSeed
    \/ PackAdd
    \/ PackBind
    \/ PackConfigure
    \/ PackReturn
    \/ PrintSummary

SpecPack == PackInit /\ [][PackNext]_vars

----------------------------------------------------------------------------
(* THE SELECTION STEP AND THE EXPORT RUN                                   *)
(*                                                                         *)
(* The scripts build a scene and end by selecting the mesh objects         *)
(* (maroon_bottle_fixed.py section 10, house_blenderlab.py, test_export.py *)
(* test 6). The export run over the fallback chain of formats is the       *)
(* worker's; SAMPLES.py lists its formats, and its steps follow sections   *)
(* 4.6, 5 and 7 of the specification.                                      *)

ObjectTypes == {"MESH", "LIGHT", "CAMERA"}

\* SUPPORTED EXPORT FORMATS of SAMPLES.py, in the order listed.
FormatList == <<"GLB", "FBX", "STL", "USD", "OBJ">>
\* OBJ: currently disabled.
DisabledFormats == {"OBJ"}

IsEnabled(fmt) == fmt \notin DisabledFormats
\* The candidate formats of a run: the list without the disabled formats.
Candidates == SelectSeq(FormatList, IsEnabled)

TargetPath == "/tmp/export"
ErrorKinds == {"RuntimeError"}
TestSizes == {0, 1024}

Selected == {i \in DOMAIN objects : objects[i].select}
MeshObjects == {i \in DOMAIN objects : objects[i].type = "MESH"}

ExportInit ==
    /\ objects = <<>>
    /\ active = 0
    /\ rngState = [seed |-> <<"entropy", "a">>]
    /\ inst = <<>>
    /\ host = {}
    /\ MeshIdle
    /\ MatIdle
    /\ HarnessIdle
    /\ PackIdle
    /\ selectedBefore = {}
    /\ exportPc = "build"
    /\ candidate = 1
    /\ attempted = <<>>
    /\ exportSet = {}
    /\ errors = <<>>
    /\ file = "none"
    /\ artifact = NoArtifact

\* bpy.ops.mesh.primitive_*_add, light_add, camera_add: the host deselects
\* what was selected, adds the object selected and makes it active.
AddObject(type) ==
    /\ exportPc = "build"
    /\ Len(objects) < MaxObjects
    /\ objects' = Append([i \in DOMAIN objects |-> [objects[i] EXCEPT !.select = FALSE]],
                         [type |-> type, select |-> TRUE])
    /\ active' = Len(objects) + 1
    /\ UNCHANGED host
    /\ UNCHANGED <<matVars, harnessVars, packVars>>
    /\ UNCHANGED <<rngState, inst, meshVars, exportVars>>

\* obj.select_set(state) on one object.
SelectSet(i, state) ==
    /\ exportPc = "build"
    /\ objects[i].select # state
    /\ objects' = [objects EXCEPT ![i].select = state]
    /\ UNCHANGED host
    /\ UNCHANGED <<matVars, harnessVars, packVars>>
    /\ UNCHANGED <<active, rngState, inst, meshVars, exportVars>>

SelectKeepingOld(obj) == obj.select \/ obj.type = "MESH"

\* The selection an object is left with: select_set(False) on every object,
\* then select_set(True) on the objects of type MESH.
SelectAfterStep(obj) == obj.type = "MESH"

\* ENSURE OBJECTS ARE SELECTABLE: the two loops over bpy.data.objects.
SelectMeshObjects ==
    /\ exportPc = "build"
    /\ selectedBefore' = Selected
    /\ objects' = [i \in DOMAIN objects |->
                      [objects[i] EXCEPT !.select = SelectAfterStep(objects[i])]]
    /\ exportPc' = "Pending"
    /\ UNCHANGED host
    /\ UNCHANGED <<matVars, harnessVars, packVars>>
    /\ UNCHANGED <<active, rngState, inst, meshVars, candidate, attempted, exportSet,
                   errors, file, artifact>>

\* Pending(format) -> Attempting: the attempt is given the current selection
\* and the target path.
BeginAttempt ==
    /\ exportPc = "Pending"
    /\ exportPc' = "Attempting"
    /\ attempted' = Append(attempted, Candidates[candidate])
    /\ exportSet' = Selected
    /\ UNCHANGED host
    /\ UNCHANGED <<matVars, harnessVars, packVars>>
    /\ UNCHANGED <<treeVars, meshVars, selectedBefore, candidate, errors, file, artifact>>

\* The export I/O of the attempt has written part of the output file.
HostWritesPartial ==
    /\ exportPc = "Attempting"
    /\ file = "none"
    /\ file' = "partial"
    /\ UNCHANGED host
    /\ UNCHANGED <<matVars, harnessVars, packVars>>
    /\ UNCHANGED <<treeVars, meshVars, selectedBefore, exportPc, candidate, attempted,
                   exportSet, errors, artifact>>

\* Attempting -> Succeeded(ArtifactInfo): the first successful format wins and
\* the run stops; the artifact's format, path and byte size are recorded.
AttemptSucceeds(size) ==
    /\ exportPc = "Attempting"
    /\ exportPc' = "Succeeded"
    /\ file' = "complete"
    /\ artifact' = [format |-> Candidates[candidate], path |-> TargetPath, size |-> size]
    /\ UNCHANGED host
    /\ UNCHANGED <<matVars, harnessVars, packVars>>
    /\ UNCHANGED <<treeVars, meshVars, selectedBefore, candidate, attempted, exportSet,
                   errors>>

NextCandidateSkipping(i) == i + 2
\* Failed(error) -> Pending(next format)
NextCandidate(i) == i + 1

FirstFailureFatal(i) == "Exhausted"
\* Where a failure of candidate i leaves the run: Exhausted after the last
\* candidate, else Pending.
FailureOutcome(i) == IF i >= Len(Candidates) THEN "Exhausted" ELSE "Pending"

PartialFileLeft(f) == f
\* The target path after a failed or timed-out attempt: a partially written
\* output file is removed.
RemovePartialFile(f) == "none"

\* The failure of an attempt, by error or by timeout: caught and recorded, the
\* partial output removed, the run advanced.
OnFailure(error) ==
    /\ errors' = Append(errors, [format |-> Candidates[candidate], error |-> error,
                                 leftPartial |-> file = "partial"])
    /\ file' = RemovePartialFile(file)
    /\ exportPc' = FailureOutcome(candidate)
    /\ candidate' = NextCandidate(candidate)
    /\ UNCHANGED host
    /\ UNCHANGED <<matVars, harnessVars, packVars>>
    /\ UNCHANGED <<treeVars, meshVars, selectedBefore, attempted, exportSet, artifact>>

\* ExportFormatFailure: the attempt raised an error.
AttemptFails(error) ==
    /\ exportPc = "Attempting"
    /\ OnFailure(error)

\* The attempt ran into its timeout.
AttemptTimesOut ==
    /\ exportPc = "Attempting"
    /\ OnFailure("Timeout")

PipelineNext ==
    \/ BeginAttempt
    \/ HostWritesPartial
    \/ \E size \in TestSizes : AttemptSucceeds(size)
    \/ \E error \in ErrorKinds : AttemptFails(error)
    \/ AttemptTimesOut

ExportNext ==
    \/ \E type \in ObjectTypes : AddObject(type)
    \/ \E i \in DOMAIN objects, state \in BOOLEAN : SelectSet(i, state)
    \/ SelectMeshObjects
    \/ PipelineNext

\* The run is a sequential loop and every attempt ends, by itself or by its
\* timeout: a pipeline step that can be taken is taken.
SpecExport == ExportInit /\ [][ExportNext]_vars /\ WF_vars(PipelineNext)

----------------------------------------------------------------------------
(* THE EXPORT DIAGNOSTIC (test_export.py)                                  *)
(*                                                                         *)
(* The run starts on the scene the host opens with and on whatever an      *)
(* earlier run left at export_path. The export call is the host's: it      *)
(* raises, having written nothing or some of the file, or it returns       *)
(* having written a file of some size, or it returns having written        *)
(* nothing. A run that falls off the end of the script ends with exit      *)
(* code 0. An exception outside the try of Test 7 is not caught: the       *)
(* script ends there ("uncaught"), and the exit code is the launcher's.    *)

\* The scenes the host can open with.
StartScenes ==
    UNION {[1..n -> [type : ObjectTypes, select : BOOLEAN]] : n \in 0..MaxObjects}

\* What an earlier run can have left at export_path.
StaleFiles == {NoFile} \cup {[exists |-> TRUE, size |-> sz] : sz \in TestSizes}

HarnessInit ==
    /\ objects \in StartScenes
    /\ active = 0
    /\ rngState = [seed |-> <<"entropy", "a">>]
    /\ inst = <<>>
    /\ harnessPc = "start"
    /\ host \in SUBSET {LinkedTimeAttribute}
    /\ mesh_count = 0
    /\ exportFile \in StaleFiles
    /\ produced = -1
    /\ file_size = -1
    /\ exitCode = -1
    /\ MeshIdle
    /\ ExportIdle
    /\ MatIdle
    /\ PackIdle

\* Test 1: select_all(action='SELECT'); delete(...)
ClearScene ==
    /\ harnessPc = "start"
    /\ objects' = <<>>
    /\ active' = 0
    /\ harnessPc' = "cube"
    /\ UNCHANGED host
    /\ UNCHANGED <<rngState, inst, mesh_count, exportFile, produced, file_size, exitCode>>
    /\ UNCHANGED <<meshVars, exportVars, matVars, packVars>>

\* Test 2: primitive_cube_add (the host adds the cube selected and active);
\* cube = bpy.context.active_object; cube.name = "TestCube"
CreateTestCube ==
    /\ harnessPc = "cube"
    /\ objects' = Append([i \in DOMAIN objects |-> [objects[i] EXCEPT !.select = FALSE]],
                         [type |-> "MESH", select |-> TRUE])
    /\ active' = Len(objects) + 1
    /\ harnessPc' = "verify"
    /\ UNCHANGED host
    /\ UNCHANGED <<rngState, inst, mesh_count, exportFile, produced, file_size, exitCode>>
    /\ UNCHANGED <<meshVars, exportVars, matVars, packVars>>

\* The exit code of a run ended by an exception the script does not catch:
\* 1 from the Python interpreter; 0 from Blender run with --python and
\* without --python-exit-code, which reports the exception and goes on.
UncaughtExitCodes == {0, 1}

\* Test 3: cube.type, cube.data, cube.linked_time are read. In a host whose
\* objects have no attribute linked_time line 32 raises AttributeError,
\* outside any try.
VerifyObjectType ==
    /\ harnessPc = "verify"
    /\ IF LinkedTimeAttribute \in host
       THEN harnessPc' = "smooth" /\ exitCode' = exitCode
       ELSE harnessPc' = "uncaught" /\ exitCode' \in UncaughtExitCodes
    /\ UNCHANGED host
    /\ UNCHANGED <<treeVars, mesh_count, exportFile, produced, file_size>>
    /\ UNCHANGED <<meshVars, exportVars, matVars, packVars>>

\* Test 4: bpy.ops.object.shade_smooth()
SmoothTestCube ==
    /\ harnessPc = "smooth"
    /\ harnessPc' = "material"
    /\ UNCHANGED host
    /\ UNCHANGED <<treeVars, mesh_count, exportFile, produced, file_size, exitCode>>
    /\ UNCHANGED <<meshVars, exportVars, matVars, packVars>>

\* Test 5: the test material: materials.new, use_nodes, the Base Color of the
\* default Principled BSDF (an input every host offers), materials.append
CreateTestMaterial ==
    /\ harnessPc = "material"
    /\ harnessPc' = "select"
    /\ UNCHANGED host
    /\ UNCHANGED <<treeVars, mesh_count, exportFile, produced, file_size, exitCode>>
    /\ UNCHANGED <<meshVars, exportVars, matVars, packVars>>

\* Test 6: deselect all, select and count the mesh objects; sys.exit(1) if
\* there is none.
CountMeshes ==
    /\ harnessPc = "select"
    /\ objects' = [i \in DOMAIN objects |->
                      [objects[i] EXCEPT !.select = (objects[i].type = "MESH")]]
    /\ mesh_count' = Cardinality(MeshObjects)
    /\ IF mesh_count' = 0
       THEN harnessPc' = "exited" /\ exitCode' = 1
       ELSE harnessPc' = "export" /\ exitCode' = exitCode
    /\ UNCHANGED host
    /\ UNCHANGED <<active, rngState, inst, exportFile, produced, file_size>>
    /\ UNCHANGED <<meshVars, exportVars, matVars, packVars>>

\* Test 7: export_scene.gltf raises, having written nothing (wrote = -1) or
\* wrote bytes of the file; except Exception: ... sys.exit(1). Nothing in the
\* except branch removes what is at export_path.
ExportRaises(wrote) ==
    /\ harnessPc = "export"
    /\ exportFile' = IF wrote >= 0 THEN [exists |-> TRUE, size |-> wrote] ELSE exportFile
    /\ produced' = IF wrote >= 0 THEN wrote ELSE produced
    /\ harnessPc' = "exited"
    /\ exitCode' = 1
    /\ UNCHANGED host
    /\ UNCHANGED <<mesh_count, file_size>>
    /\ UNCHANGED <<treeVars, meshVars, exportVars, matVars, packVars>>

\* Test 7: export_scene.gltf returns, having written size bytes to export_path.
ExportWrites(size) ==
    /\ harnessPc = "export"
    /\ exportFile' = [exists |-> TRUE, size |-> size]
    /\ produced' = size
    /\ harnessPc' = "check"
    /\ UNCHANGED host
    /\ UNCHANGED <<mesh_count, file_size, exitCode>>
    /\ UNCHANGED <<treeVars, meshVars, exportVars, matVars, packVars>>

\* Test 7: export_scene.gltf returns without having written a file.
ExportWritesNothing ==
    /\ harnessPc = "export"
    /\ harnessPc' = "check"
    /\ UNCHANGED host
    /\ UNCHANGED <<mesh_count, exportFile, produced, file_size, exitCode>>
    /\ UNCHANGED <<treeVars, meshVars, exportVars, matVars, packVars>>

\* The exit code of the branch of os.path.exists(export_path): the run falls
\* off the end of the script.
ExitCodeIfExists(f) == 0

\* Lines 80-96: if os.path.exists(export_path): getsize, os.remove, the run
\* ends; else sys.exit(1).
CheckFile ==
    /\ harnessPc = "check"
    /\ IF exportFile.exists
       THEN /\ file_size' = exportFile.size
            /\ exportFile' = NoFile
            /\ exitCode' = ExitCodeIfExists(exportFile)
       ELSE /\ exitCode' = 1
            /\ UNCHANGED <<file_size, exportFile>>
    /\ harnessPc' = "exited"
    /\ UNCHANGED host
    /\ UNCHANGED <<mesh_count, produced>>
    /\ UNCHANGED <<treeVars, meshVars, exportVars, matVars, packVars>>

\* Lines 80-87 and 98-103: os.remove raises; except Exception: ... sys.exit(1)
RemoveRaises ==
    /\ harnessPc = "check"
    /\ exportFile.exists
    /\ file_size' = exportFile.size
    /\ exitCode' = 1
    /\ harnessPc' = "exited"
    /\ UNCHANGED host
    /\ UNCHANGED <<mesh_count, exportFile, produced>>
    /\ UNCHANGED <<treeVars, meshVars, exportVars, matVars, packVars>>

HarnessNext ==
    \/ ClearScene
    \/ CreateTestCube
    \/ VerifyObjectType
    \/ SmoothTestCube
    \/ CreateTestMaterial
    \/ CountMeshes
    \/ \E wrote \in {-1} \cup TestSizes : ExportRaises(wrote)
    \/ \E size \in TestSizes : ExportWrites(size)
    \/ ExportWritesNothing
    \/ CheckFile
    \/ RemoveRaises

SpecHarness == HarnessInit /\ [][HarnessNext]_vars

\* C1: the candidates are attempted strictly in their priority order, a failed
\* attempt advances to the next candidate, and the first success ends the run
\* with that format's artifact; in particular a success after exactly two
\* failures returns the third format's artifact, the two failures being those
\* of the first and the second candidate, in that order.
C1_FallbackOrder ==
    /\ attempted = SubSeq(Candidates, 1, Len(attempted))
    /\ \A i \in DOMAIN errors : errors[i].format = Candidates[i]
    /\ exportPc \in {"Pending", "Exhausted"} => Len(attempted) = Len(errors)
    /\ exportPc \in {"Attempting", "Succeeded"} => Len(attempted) = Len(errors) + 1
    /\ exportPc = "Succeeded" =>
           /\ artifact.format = Candidates[Len(errors) + 1]
           /\ artifact.format = attempted[Len(attempted)]
    /\ (exportPc = "Succeeded" /\ Len(errors) = 2) =>
           /\ artifact.format = Candidates[3]
           /\ <<errors[1].format, errors[2].format>> = <<Candidates[1], Candidates[2]>>
           /\ attempted = <<Candidates[1], Candidates[2], Candidates[3]>>

C1_Witness ==
    /\ exportPc = "Succeeded"
    /\ Len(errors) = 2
    /\ artifact.format = "STL"
    /\ Len(Candidates) > 3

Terminal == exportPc \in {"Succeeded", "Exhausted"}

\* C2: a candidate's failure is never fatal by itself: the run always ends, and
\* it ends Exhausted only when every candidate has been attempted and has
\* failed, with one error per failed candidate.
C2_ExhaustedOnlyWhenAllFailed ==
    /\ [](exportPc = "Exhausted" =>
              /\ attempted = Candidates
              /\ Len(errors) = Len(Candidates)
              /\ \A i \in DOMAIN errors : errors[i].format = Candidates[i])
    /\ (exportPc \in {"Pending", "Attempting"}) ~> Terminal

C2_Witness ==
    /\ exportPc = "Exhausted"
    /\ Len(errors) = Len(Candidates)
    /\ Len(errors) > 1

\* C3: when an attempt has failed or timed out, no partially written output
\* file of it is at the target path when the next format is attempted or the
\* run ends in failure.
C3_NoPartialFileAfterFailure ==
    (Len(errors) > 0 /\ exportPc \in {"Pending", "Exhausted"}) => file = "none"

\* The run is about to try the next format after a timed-out attempt that had
\* written part of its file.
C3_Witness ==
    /\ exportPc = "Pending"
    /\ Len(errors) > 0
    /\ errors[Len(errors)].leftPartial
    /\ errors[Len(errors)].error = "Timeout"
    /\ file = "none"

\* C4: after the selection step, whatever was selected before, the selected
\* objects are exactly the objects of type MESH (as many as the scene has
\* mesh objects, whatever the number of lights and cameras), and the set
\* handed to an export attempt holds no light and no camera.
C4_SelectionIsMeshes ==
    exportPc # "build" =>
        /\ Selected = MeshObjects
        /\ Cardinality(Selected) =
               Len(objects) - Cardinality({i \in DOMAIN objects :
                                              objects[i].type \in {"LIGHT", "CAMERA"}})
        /\ exportPc \in {"Attempting", "Succeeded"} =>
               /\ exportSet = MeshObjects
               /\ \A i \in exportSet : objects[i].type \notin {"LIGHT", "CAMERA"}

\* The step ran on a scene where a light was selected and a mesh was not, and
\* the selection was handed to an attempt.
C4_Witness ==
    /\ exportPc = "Attempting"
    /\ \E i \in selectedBefore : objects[i].type = "LIGHT"
    /\ \E i \in MeshObjects : i \notin selectedBefore
    /\ exportSet = MeshObjects

----------------------------------------------------------------------------
(* Properties of the tree generator.                                       *)

Returned(k) == inst[k].pc = "done"
\* The call has returned, or an exception has ended it.
Ended(k) == inst[k].pc \in {"done", "raised"}

\* The objects call k added, as they were when it ended.
AddedBy(k) ==
    SubSeq(inst[k].objectsAtReturn, Len(inst[k].objectsAtCall) + 1,
           Len(inst[k].objectsAtReturn))

CountOf(seq, Test(_)) == Cardinality({i \in DOMAIN seq : Test(seq[i])})

\* An object but for its selection flag, which the host clears on every
\* object when it adds a primitive.
Deselected(o) == [o EXCEPT !.select = FALSE]

\* Call k has added exactly 1 trunk and levels * 4 foliage clumps, one main
\* and three side clumps per level, and has added or removed no other object:
\* the objects that were in the scene before are there, in their order and
\* as they were but for their selection flag.
AddedItsParts(k) ==
    LET c == inst[k]
        L == TreeParams(c.tree_type, c.scale).levels
        added == AddedBy(k)
        IsTrunk(o) == o.prim = "cone"
        IsClump(o) == o.prim = "sphere"
    IN  /\ Len(c.objectsAtReturn) = Len(c.objectsAtCall) + 1 + L * 4
        /\ \A i \in DOMAIN c.objectsAtCall :
               Deselected(c.objectsAtReturn[i]) = Deselected(c.objectsAtCall[i])
        /\ CountOf(added, IsTrunk) = 1
        /\ CountOf(added, IsClump) = L * 4
        /\ \A level \in 0..(L - 1) :
               LET p == TreeParams(c.tree_type, c.scale)
                   AtLevel(o) == o.prim = "sphere" /\ o.rise = Rise(p, level)
                   IsMain(o) == AtLevel(o) /\ o.offset.dist_100 = 0
                   IsSide(o) == AtLevel(o) /\ o.offset.dist_100 > 0
               IN  /\ CountOf(added, IsMain) = 1
                   /\ CountOf(added, IsSide) = 3
                   /\ {added[i].offset.angle : i \in {j \in DOMAIN added : IsSide(added[j])}}
                          = {0, 120, 240}

\* C5 as stated: for every tree type, a call of create_tree adds exactly
\* 1 trunk and levels * 4 foliage clumps (one main and three side clumps per
\* level) to the scene, and adds or removes no other object.
C5_PartsPerTreeAsStated ==
    \A k \in DOMAIN inst : Ended(k) => AddedItsParts(k)

\* What holds: a call that returns has done so; a call returns only in a
\* host whose primitive_uv_sphere_add takes the keyword subdivisions, and in
\* every other host ends at its first clump having added its trunk alone.
ReturnedCallsAddedTheirParts ==
    \A k \in DOMAIN inst :
        /\ Returned(k) => (AddedItsParts(k) /\ SubdivisionsKeyword \in host)
        /\ inst[k].pc = "raised" =>
               /\ SubdivisionsKeyword \notin host
               /\ Len(AddedBy(k)) = 1
               /\ AddedBy(k)[1].prim = "cone"

\* Part counts, radii and relative offsets of what call k built.
Geometry(k) ==
    LET added == AddedBy(k)
    IN  [i \in DOMAIN added |->
            [prim |-> added[i].prim, radius |-> added[i].radius,
             offset |-> added[i].offset, rise |-> added[i].rise]]

SameArguments(a, b) ==
    /\ inst[a].tree_type = inst[b].tree_type
    /\ inst[a].location = inst[b].location
    /\ inst[a].scale = inst[b].scale

\* Two calls with the same arguments build the same geometry.
GeometryDeterministic ==
    \A a, b \in DOMAIN inst :
        (Returned(a) /\ Returned(b) /\ SameArguments(a, b)) => Geometry(a) = Geometry(b)

\* A call leaves the state of the program-wide random generator as it found it.
RngLeftAsFound ==
    \A k \in DOMAIN inst : Ended(k) => inst[k].rngAtReturn = inst[k].rngAtCall

\* C6 as stated: the generator is deterministic (two calls with identical
\* arguments, from any prior states, build identical part counts, radii and
\* relative offsets) and a call leaves the program-wide random generator state
\* as it found it.
C6_PureAsStated == GeometryDeterministic /\ RngLeftAsFound

\* What the part a call asked for is meant to carry once configured.
Expected(o) ==
    LET c == inst[o.creator]
        p == Parts(c.tree_type, c.location, c.scale)[o.part]
    IN  [name |-> p.name,
         materials |-> <<p.material>>,
         modifiers |-> IF p.prim = "sphere" THEN <<p.modifier>> ELSE <<>>]

\* Every instance has named and configured only objects it created itself.
TouchesOwnObjectsOnly ==
    \A o \in DOMAIN objects : \A t \in objects[o].touchedBy : t[1] = objects[o].creator

\* Every object an instance has finished with is the part a run of its
\* creator alone gives.
PartsAsSequential ==
    \A o \in DOMAIN objects :
        objects[o].finishedBy # {} =>
            /\ objects[o].name = Expected(objects[o]).name
            /\ objects[o].materials = Expected(objects[o]).materials
            /\ objects[o].modifiers = Expected(objects[o]).modifiers

\* C7 as stated: in every interleaving of two instances each instance names,
\* attaches its material to and adds its modifier to only the objects it
\* created itself, and the scene holds the parts the two instances give when
\* run one after the other.
C7_IndependentAsStated == TouchesOwnObjectsOnly /\ PartsAsSequential

----------------------------------------------------------------------------
(* Properties of the revolved mesh and of the emboss selection.            *)

ZeroRadiusPoints(prof) == {i \in DOMAIN prof : prof[i][1] = 0}
ZeroRadiusEndpoints(prof) == ZeroRadiusPoints(prof) \cap {1, Len(prof)}

\* Two consecutive points of the profile are both on the axis.
AxisSegments(prof) ==
    {e \in 1..(Len(prof) - 1) : prof[e][1] = 0 /\ prof[e + 1][1] = 0}

\* Every edge of the mesh, and every edge of every face, is an edge of
\* exactly two faces.
Closed(m) ==
    LET edgesOf == [q \in DOMAIN m.faces |-> FaceEdges(m.faces[q])]
    IN  \A e \in m.edges \cup UNION {edgesOf[q] : q \in DOMAIN m.faces} :
            Cardinality({q \in DOMAIN m.faces : e \in edgesOf[q]}) = 2

\* The edges of the faces are edges of the mesh, and the ends of the edges
\* are vertices of the mesh.
EdgesWellFormed(m) ==
    /\ \A q \in DOMAIN m.faces : FaceEdges(m.faces[q]) \subseteq m.edges
    /\ UNION m.edges \subseteq m.verts

FacesWellFormed(m) ==
    \A q \in DOMAIN m.faces :
        /\ Len(m.faces[q]) \in {3, 4}
        /\ Range(m.faces[q]) \subseteq m.verts
        /\ Cardinality(Range(m.faces[q])) = Len(m.faces[q])

NoDuplicateFaces(m) ==
    \A q1, q2 \in DOMAIN m.faces :
        q1 < q2 => Range(m.faces[q1]) # Range(m.faces[q2])

\* C8 as stated: every revolved profile of N points has
\* steps * (N - 2) + (number of 0-radius endpoints) vertices.
C8_VertexCountAsStated ==
    mesh.made =>
        Cardinality(mesh.verts) =
            steps * (Len(profile) - 2) + Cardinality(ZeroRadiusEndpoints(profile))

\* C8, amended: the revolved mesh has one vertex per 0-radius point and `steps`
\* vertices per other point; that is steps * (N - 2) + 2 when the two
\* endpoints, and no other point, have radius 0; the 17-point bottle profile
\* at 64 steps gives 962.
C8_VertexCount ==
    mesh.made =>
        /\ Cardinality(mesh.verts) =
               steps * (Len(profile) - Cardinality(ZeroRadiusPoints(profile)))
               + Cardinality(ZeroRadiusPoints(profile))
        /\ ZeroRadiusPoints(profile) = {1, Len(profile)} =>
               Cardinality(mesh.verts) = steps * (Len(profile) - 2) + 2
        /\ (profile = profile_verts /\ steps = 64) =>
               (Len(profile) = 17 /\ Cardinality(mesh.verts) = 962)

C8_Witness ==
    /\ mesh.made
    /\ profile = profile_verts
    /\ steps = 64
    /\ Cardinality(mesh.verts) = 962

AxisEdgesLoose ==
    mesh.made =>
        \A e \in AxisSegments(profile) :
            /\ {e, e + 1} \in mesh.edges
            /\ \A q \in DOMAIN mesh.faces : {e, e + 1} \notin FaceEdges(mesh.faces[q])

FaceHeights(m, f) == {m.z[m.faces[f][k]] : k \in DOMAIN m.faces[f]}

\* C10 as stated: the selection is the set of faces all of whose vertices have
\* min <= z < max.
C10_HalfOpenAsStated ==
    \A r \in DOMAIN selections :
        selections[r] =
            {f \in DOMAIN mesh.faces :
                \A h \in FaceHeights(mesh, f) : EmbossZMin <= h /\ h < EmbossZMax}

\* C10, amended: the selection is the set of faces all of whose vertices have
\* min < z < max (both bounds exclusive): a face with a vertex at height min
\* or max, or outside the bounds, is excluded entirely, and every run on the
\* same mesh returns the same face set.
C10_OpenInterval ==
    \A r \in DOMAIN selections :
        /\ selections[r] =
               {f \in DOMAIN mesh.faces :
                   \A h \in FaceHeights(mesh, f) : EmbossZMin < h /\ h < EmbossZMax}
        /\ \A f \in DOMAIN mesh.faces :
               (\E h \in FaceHeights(mesh, f) :
                    h = EmbossZMin \/ h = EmbossZMax \/ h < EmbossZMin \/ h > EmbossZMax)
                   => f \notin selections[r]
        /\ selections[r] = selections[1]

\* A second run has returned, on a mesh with a selected face, a face excluded
\* for a vertex at exactly min whose other vertices are inside, and a face
\* excluded for a vertex at exactly max.
C10_Witness ==
    /\ Len(selections) = 2
    /\ selections[2] # {}
    /\ \E f \in DOMAIN mesh.faces :
           /\ EmbossZMin \in FaceHeights(mesh, f)
           /\ \A h \in FaceHeights(mesh, f) : EmbossZMin <= h /\ h < EmbossZMax
           /\ f \notin selections[2]
    /\ \E f \in DOMAIN mesh.faces :
           /\ EmbossZMax \in FaceHeights(mesh, f)
           /\ f \notin selections[2]

\* The faces of the embossed mesh made of face q of the revolved mesh.
PiecesOf(bm, q) == {p \in DOMAIN bm.faces : p[1] = q}

\* The faces outside the selection: each is still one face with the vertex
\* list it had.
FacesOutsideKept ==
    \A q \in DOMAIN mesh.faces \ EmbossFaces(mesh) :
        /\ PiecesOf(embossed, q) = {<<q, 1>>}
        /\ embossed.faces[<<q, 1>>] = mesh.faces[q]

\* The vertices of the revolved mesh are vertices of the embossed mesh, at
\* the height they had.
VerticesKept ==
    \A v \in mesh.verts : v \in embossed.verts /\ embossed.z[v] = mesh.z[v]

\* With no face selected the step leaves the mesh as it was.
EmptySelectionUnchanged ==
    EmbossFaces(mesh) = {} => embossed = EditMesh(mesh)

\* C11 as stated: the emboss step changes only the selected region: every
\* vertex and every face outside the selected face set, the unselected faces
\* that share an edge with a selected face included, has the position and
\* the vertex list it had, and with an empty selection the mesh is unchanged.
C11_OnlySelectionChangesAsStated ==
    meshPc = "embossed" =>
        /\ FacesOutsideKept
        /\ VerticesKept
        /\ EmptySelectionUnchanged

\* What holds of the step: the vertices keep their positions, an empty
\* selection changes nothing, and an unselected face changes exactly when
\* it shares an edge with a selected face: its loop then holds the Cuts new
\* vertices of that edge.
EmbossFootprint ==
    meshPc = "embossed" =>
        /\ VerticesKept
        /\ EmptySelectionUnchanged
        /\ \A q \in DOMAIN mesh.faces \ EmbossFaces(mesh) :
               LET shared == FaceEdges(mesh.faces[q])
                                 \cap EmbossEdges(mesh, EmbossFaces(mesh))
               IN  /\ PiecesOf(embossed, q) = {<<q, 1>>}
                   /\ Len(embossed.faces[<<q, 1>>]) =
                          Len(mesh.faces[q]) + Cuts * Cardinality(shared)
                   /\ Cardinality(shared) <= 1

----------------------------------------------------------------------------
(* Properties of the material builders.                                    *)

\* The parameters a builder attaches to the surface shader, each with its
\* acceptable socket names, newer name first.
ParamNames(builder) ==
    CASE builder = "plastic" ->
             { <<"Base Color">>, <<"Roughness">>, <<"IOR">>,
               <<"Transmission Weight", "Transmission">> }
      [] builder = "bark" -> { <<"Base Color">>, <<"Roughness">> }
      [] builder = "leaf" ->
             { <<"Base Color">>, <<"Roughness">>, <<"Subsurface Weight", "Subsurface">> }
      [] builder = "glass" ->
             { <<"Base Color">>, <<"Roughness">>,
               <<"Transmission Weight", "Transmission">> }
      [] OTHER -> {}

Shader(m) == {n \in m.nodes : NodeType(n) = "ShaderNodeBsdfPrincipled"}
Finished(m) == m.status \in {"building", "attached"} /\ m.pc > Len(Program(m.builder))

\* Each parameter is set on exactly the first of its names the host offers,
\* on none if the host offers none.
SetOnFirstOffered(m) ==
    \A names \in ParamNames(m.builder) :
        {k \in Range(names) : \E n \in Shader(m) : <<n, k>> \in m.written}
            = FirstPresent(names, sockets)

\* C12 as stated: for every parameter a builder sets and every set of
\* sockets the host offers, the parameter is set on exactly the first
\* acceptable name that exists (newer before older), and when none exists the
\* parameter is skipped and the material is still completed and returned.
C12_ProbeAsStated ==
    /\ mat.status # "KeyError"
    /\ Finished(mat) => SetOnFirstOffered(mat)

\* What holds: the builders of the bottle and of the tree pack do so on
\* every host that offers Base Color, Roughness and IOR.
ProbingBuildersDegrade ==
    mat.builder \in {"plastic", "bark", "leaf"} =>
        /\ mat.status # "KeyError"
        /\ Finished(mat) => SetOnFirstOffered(mat)

OutputNodes(m) == {n \in m.nodes : NodeType(n) = "ShaderNodeOutputMaterial"}

\* The nodes the links lead to from the nodes of S in one step, and in up to
\* k further steps.
Succ(links, S) == {l[3] : l \in {x \in links : x[1] \in S}}
RECURSIVE ReachFrom(_, _, _)
ReachFrom(links, S, k) ==
    IF k = 0 THEN S ELSE ReachFrom(links, S \cup Succ(links, S), k - 1)

\* No node is reached from itself along the links.
Acyclic(m) ==
    \A n \in m.nodes :
        n \notin ReachFrom(m.links, Succ(m.links, {n}), Cardinality(m.nodes))

\* The links the code of a builder makes.
FullLinks(builder) ==
    {Program(builder)[i].link :
        i \in {j \in DOMAIN Program(builder) : Program(builder)[j].op = "link"}}

\* C14: a material a builder (plastic, bark, leaf) has returned has exactly
\* one output node, its links form no cycle, the output of its surface shader
\* is linked to the Surface input of that output node, and when it is
\* attached to a mesh every link of the builder is in place.
C14_MaterialGraphs ==
    (mat.builder \in {"plastic", "bark", "leaf"} /\ mat.returned) =>
        /\ Cardinality(OutputNodes(mat)) = 1
        /\ Acyclic(mat)
        /\ \E sh \in Shader(mat), o \in OutputNodes(mat) :
               <<sh, "BSDF", o, "Surface">> \in mat.links
        /\ mat.status = "attached" => mat.links = FullLinks(mat.builder)

\* The plastic material is attached with its six nodes and five links.
C14_Witness ==
    /\ mat.builder = "plastic"
    /\ mat.status = "attached"
    /\ Cardinality(mat.nodes) = 6
    /\ Cardinality(mat.links) = 5
    /\ <<"bump", "Normal", "bsdf", "Normal">> \in mat.links

----------------------------------------------------------------------------
(* Properties of the export diagnostic.                                    *)

\* C13 as stated: the diagnostic ends with exit code 0 only when the export
\* call produced an output file of non-zero size; every other run (no mesh
\* object, the export raised, the file is missing, the file is empty) ends
\* with a non-zero exit code.
C13_ExitCodeAsStated ==
    harnessPc = "exited" => (exitCode = 0 => produced > 0)

\* What holds: exit code 0 only when a file was at export_path after the
\* export call returned; a run with no mesh object, a raising export or no
\* file at the path ends with exit code 1.
ExitCodeFollowsExistence ==
    harnessPc = "exited" =>
        /\ exitCode \in {0, 1}
        /\ exitCode = 0 => (mesh_count > 0 /\ file_size >= 0)
        /\ mesh_count = 0 => exitCode = 1

----------------------------------------------------------------------------
(* Properties of the asset pack.                                           *)

\* The foliage clumps in the scene: the spheres create_foliage_clump added.
FoliageClumps == {o \in DOMAIN objects : objects[o].prim = "sphere"}

\* C15 as stated: the total foliage clump count the summary reports is the
\* number of foliage clumps created by generating the five trees of types 1
\* to 5.
C15_SummaryCountAsStated ==
    summary.printed => summary.clumps = Cardinality(FoliageClumps)

\* What holds: the five trees are of types 1 to 5, in this order, and have
\* 4 * (4 + 3 + 5 + 2 + 3) = 68 foliage clumps; the summary reports 80.
PackCounts ==
    summary.printed =>
        /\ summary.trees = 5
        /\ [k \in DOMAIN inst |-> inst[k].tree_type] = <<1, 2, 3, 4, 5>>
        /\ Cardinality(FoliageClumps) = 68
        /\ summary.clumps = 80

\* A raising export leaves at export_path what it wrote: the run ends with
\* exit code 1 and the file is still there.
FailedExportLeavesFile ==
    (harnessPc = "exited" /\ file_size = -1 /\ mesh_count > 0 /\ produced >= 0) =>
        /\ exitCode = 1
        /\ exportFile = [exists |-> TRUE, size |-> produced]

\* What the interleaving of the statements gives: both instances hold the
\* cone of instance 2, instance 2 names it last and appends its bark material
\* first, and the cone of instance 1 is left without name and material.
MixedTrunkReached ==
    /\ Len(objects) >= 2
    /\ objects[1].name = <<>> /\ objects[1].materials = <<>>
    /\ objects[2].name = <<"Trunk_Type", 2>>
    /\ objects[2].materials = <<"BarkLight", "BarkDark">>
    /\ active = 2

====
